---- MODULE Spec2Model ----
(***************************************************************************)
(* Text -> speech -> voiceover video (src/ai.py).                          *)
(*                                                                         *)
(* The model follows one run of the Streamlit script after the "Generate   *)
(* Video" button is pressed (lines 108-137) and the two functions it       *)
(* calls: synthesize_tts/_synthesize (lines 39-58) and                     *)
(* create_video_with_voiceover (lines 61-90).  Times are whole ticks; the  *)
(* media library's clips are records carrying what the code sets on them   *)
(* (source, number of concatenated copies, trim window, size, audio).      *)
(* Calls into the speech service and the media library either return or    *)
(* raise; a raise ends the function and, uncaught, the script run.         *)
(***************************************************************************)
EXTENDS Integers, Sequences, FiniteSets, TLC

\* ------------------------------------------------------------- bounds
MaxText == 2        \* longest narration text, in characters
MaxDur  == 3        \* longest audio duration, in ticks
MaxVid  == 3        \* longest source video duration, in ticks

\* ------------------------------------------------- program constants
TargetHeight      == 720     \* resize(height=720)
PlaceholderWidth  == 1280    \* Image.new("RGB", (1280, 720))
PlaceholderHeight == 720
ImageFps          == 24      \* write_videofile(..., fps=24, ...)

None == "None"

\* VOICE_PRESETS (two of the eight presets are enough to tell voices apart)
VOICE_PRESETS == {"en-US-GuyNeural", "en-GB-LibbyNeural"}

\* st.slider("Rate (%)", -40, 60, 0, step=5): both ends, zero, one step
RateChoices  == {-40, 0, 5}
\* st.slider("Pitch (%)", -20, 40, 0, step=5)
PitchChoices == {0, 40}

\* characters of the narration text: a blank, a line break and a letter
Chars      == {" ", "\n", "a"}
Whitespace == {" ", "\n"}

Texts == UNION {[1..n -> Chars] : n \in 0..MaxText}

\* st.file_uploader(type=["mp4","mov","webm","jpg","jpeg","png"]): the
\* suffixes an upload's name can end with, as Path.suffix gives them, in
\* the letter case the user's file name has.
Suffixes == { <<".", "m", "p", "4">>, <<".", "M", "O", "V">>,
              <<".", "w", "e", "b", "m">>, <<".", "p", "n", "g">> }

\* what the uploaded bytes really are, whatever the name says
Contents == {"video", "image"}

\* stems of the upload's name: any name, and the one name the script
\* itself uses for its output (line 127)
Stems == {"clip", "output"}

Uploads ==
    { u \in [kind : {"file"}, stem : Stems, suffix : Suffixes,
              content : Contents] :
        u.stem = "output" => u.suffix = <<".", "m", "p", "4">> }

\* st.file_uploader returns None when nothing was uploaded
NoUpload == [kind |-> "none"]

\* frame sizes <<width, height>> of uploaded media
Sizes == { <<1920, 1080>>, <<640, 360>> }

VARIABLES
    \* --- the script run (lines 97-137)
    pc,           \* position of the script run: the statement it is at
    text_input,   \* st.text_area value
    voice,        \* st.selectbox value
    rate,         \* st.slider value
    pitch,        \* st.slider value
    upload,       \* st.file_uploader value: None or an upload
    tmp_dir,      \* TRUE once tempfile.mkdtemp() made the scratch directory
    files,        \* paths of the files this run or call has written
    leftover,     \* TRUE when a scratch directory or a file of an earlier
                  \* run or call is still on disk (nothing ever removes one)
    request,      \* what was handed to edge_tts.Communicate, or None
    ui,           \* what the page shows: "error", "success", "video"
    offered,      \* download buttons on the page
    synthCalls,   \* calls of synthesize_tts in this run
    composeCalls, \* calls of create_video_with_voiceover in this run
    failedStage,  \* stage whose exception ended the run, or None
    \* --- create_video_with_voiceover (lines 61-90)
    cpc,          \* position inside the function
    audioLen,     \* duration of the audio file at audio_path
    video_path,   \* argument: None or a path
    image_path,   \* argument: None or a path
    out_path,     \* argument: the path of the output file
    handles,      \* media objects opened by the call and not yet closed
    audioOpens,   \* number of AudioFileClip(audio_path) opens
    duration,     \* local: audio_clip.duration
    source,       \* the opened visual source: duration and frame size
    track,        \* the clip bound to `video` / `clip`
    outFile,      \* what write_videofile put at out_path, or None
    result        \* the returned (out_path, duration), or None

\* the values the widgets return (lines 97-106)
formVars   == <<text_input, voice, rate, pitch, upload>>
\* the script's state except the files written
runVars    == <<pc, text_input, voice, rate, pitch, upload, tmp_dir,
                leftover, request, ui, offered, synthCalls, composeCalls,
                failedStage>>
scriptVars == <<pc, text_input, voice, rate, pitch, upload, tmp_dir, files,
                leftover, request, ui, offered, synthCalls, composeCalls,
                failedStage>>
callVars   == <<cpc, audioLen, video_path, image_path, out_path, handles,
                audioOpens, duration, source, track, outFile, result>>
vars       == <<pc, text_input, voice, rate, pitch, upload, tmp_dir, files,
                leftover, request, ui, offered, synthCalls, composeCalls,
                failedStage, cpc, audioLen, video_path, image_path, out_path,
                handles, audioOpens, duration, source, track, outFile,
                result>>

\* ---------------------------------------------------------- str.strip
\* a slip: the text is tested as typed, without strip()
StripNothing(s) == s

RECURSIVE LStrip(_)
LStrip(s) == IF s # <<>> /\ Head(s) \in Whitespace THEN LStrip(Tail(s)) ELSE s

RECURSIVE RStrip(_)
RStrip(s) ==
    IF s # <<>> /\ s[Len(s)] \in Whitespace
    THEN RStrip(SubSeq(s, 1, Len(s) - 1))
    ELSE s

Strip(s) == RStrip(LStrip(s))

\* ---------------------------------------------------------- str.lower
LowerChar(c) ==
    CASE c = "M" -> "m"
      [] c = "O" -> "o"
      [] c = "V" -> "v"
      [] OTHER   -> c

Lower(s) == [i \in 1..Len(s) |-> LowerChar(s[i])]

VideoSuffixes == { <<".", "m", "p", "4">>, <<".", "m", "o", "v">>,
                   <<".", "w", "e", "b", "m">> }


\* ------------------------------------------- absent values of the run
NoRequest == [kind |-> "none"]
NoClip    == [kind |-> "none"]
NoFile    == [kind |-> "none"]
NoResult  == [kind |-> "none"]

\* Python truthiness of an Optional[str]: None and "" are false
Truthy(s) == s # None /\ s # ""

\* f"{n}%"
Percent(n) == ToString(n) \o "%"

\* ---------------------------------------------------------- _synthesize
\* The argument handed to edge_tts.Communicate: the plain text, or the
\* <speak><voice name=...><prosody ...>text</prosody></voice></speak>
\* envelope, kept as its parts.
Synthesize(text, v, r, p) ==
    LET withRate == IF Truthy(r)
                    THEN << [name |-> "rate", value |-> r] >>
                    ELSE << >>
        prosody  == IF Truthy(p)
                    THEN withRate \o << [name |-> "pitch", value |-> p] >>
                    ELSE withRate
    IN  IF prosody # << >>
        THEN [kind |-> "ssml", voice |-> v, voiceName |-> v,
              prosody |-> prosody, body |-> text]
        ELSE [kind |-> "text", voice |-> v, body |-> text]

\* ------------------------------------------------------- synthesize_tts
\* a slip: only a positive rate counts as set
RateArgPositiveOnly(rate_pct) ==
    IF rate_pct > 0 THEN Percent(rate_pct) ELSE None

RateArg(rate_pct)   == IF rate_pct # 0 THEN Percent(rate_pct) ELSE None
PitchArg(pitch_pct) == IF pitch_pct # 0 THEN Percent(pitch_pct) ELSE None

SynthesizeTts(text, v, rate_pct, pitch_pct) ==
    Synthesize(text, v, RateArg(rate_pct), PitchArg(pitch_pct))

\* ------------------------------------------------ media library clips
\* a slip: the extra copy is forgotten
LoopCountWithoutExtra(d, v) == d \div v

\* n = int(duration // video.duration) + 1
LoopCount(d, v) == (d \div v) + 1

\* concatenate_videoclips([video] * n)
Concatenate(clip, n) ==
    [clip EXCEPT !.copies = n, !.span = n * clip.span,
                 !.duration = n * clip.duration,
                 !.ops = Append(clip.ops, "concatenate")]

\* clip.subclip(t_start, t_end)
Subclip(clip, t_start, t_end) ==
    [clip EXCEPT !.start = t_start, !.duration = t_end - t_start,
                 !.ops = Append(clip.ops, "subclip")]

\* clip.set_duration(d)
SetDuration(clip, d) ==
    [clip EXCEPT !.duration = d, !.ops = Append(clip.ops, "set_duration")]

\* clip.resize(height=h): the width follows, keeping the aspect ratio
Resize(clip, h) ==
    [clip EXCEPT !.w = (clip.w * h) \div clip.h, !.h = h,
                 !.ops = Append(clip.ops, "resize")]

\* clip.set_audio(audio_clip)
SetAudio(clip) ==
    [clip EXCEPT !.audio = TRUE, !.ops = Append(clip.ops, "set_audio")]

\* a slip: the still is held but not resized
ImageTrackNoResize(clip, d) == SetAudio(SetDuration(clip, d))

\* lines 67-71: the track of a supplied video for an audio of duration d
VideoTrack(clip, d) ==
    IF clip.duration < d
    THEN Subclip(Concatenate(clip, LoopCount(d, clip.duration)), 0, d)
    ELSE Subclip(clip, 0, d)

\* lines 84-85: the track of a still image for an audio of duration d
ImageTrack(clip, d) == SetAudio(Resize(SetDuration(clip, d), TargetHeight))

\* a freshly opened clip: one copy of its source, untrimmed, silent, with
\* no operation of the media library applied yet
Opened(kind, path, dur, size) ==
    [kind |-> kind, path |-> path, copies |-> 1, start |-> 0, span |-> dur,
     duration |-> dur, w |-> size[1], h |-> size[2],
     srcW |-> size[1], srcH |-> size[2], audio |-> FALSE, ops |-> << >>]

\* a slip: the suffix is compared without lower()
IsVideoUploadCaseSensitive(u) == u.suffix \in VideoSuffixes

\* line 122: file_path.suffix.lower() in [".mp4", ".mov", ".webm"]
IsVideoUpload(u) == Lower(u.suffix) \in VideoSuffixes

\* the characters of a suffix put together as one string
RECURSIVE Join(_)
Join(s) == IF s = << >> THEN "" ELSE Head(s) \o Join(Tail(s))

\* line 114: audio_file = tmp_dir / "voice.mp3"
AudioPath == "tmp_dir/voice.mp3"

\* line 119: file_path = tmp_dir / upload.name
UploadPath(u) == "tmp_dir/" \o u.stem \o Join(u.suffix)

\* line 127: out_video = tmp_dir / "output.mp4"
OutPath == "tmp_dir/output.mp4"

\* line 80: tmp_img.name, a fresh .png in the system's temporary directory
PlaceholderPath == "tmp.png"

\* ------------------------------------------------------------- Init
\* the widgets at their defaults (lines 97-106)
FormDefaults ==
    /\ text_input = << >>
    /\ voice = "en-US-GuyNeural"
    /\ rate = 0
    /\ pitch = 0
    /\ upload = NoUpload

InitScript ==
    /\ pc = "idle"
    /\ FormDefaults
    /\ tmp_dir = FALSE
    /\ files = {}
    /\ leftover = FALSE
    /\ request = NoRequest
    /\ ui = {}
    /\ offered = {}
    /\ synthCalls = 0
    /\ composeCalls = 0
    /\ failedStage = None

InitCall ==
    /\ cpc = "idle"
    /\ audioLen = 0
    /\ video_path = None
    /\ image_path = None
    /\ out_path = None
    /\ handles = {}
    /\ audioOpens = 0
    /\ duration = 0
    /\ source = NoClip
    /\ track = NoClip
    /\ outFile = NoFile
    /\ result = NoResult

Init == InitScript /\ InitCall

\* the locals of create_video_with_voiceover at its entry
EnterCall ==
    /\ cpc' = "open_audio"
    /\ handles' = {}
    /\ audioOpens' = 0
    /\ duration' = 0
    /\ source' = NoClip
    /\ track' = NoClip
    /\ outFile' = NoFile
    /\ result' = NoResult

\* nothing is running: no script run, no call of the composer
Quiet == pc = "idle" /\ cpc = "idle"

\* a run or a call has ended and its outcome is on the page
Ended == /\ pc \in {"idle", "done", "failed", "rejected"}
         /\ cpc \in {"idle", "returned", "raised"}
         /\ ~Quiet

\* ------------------------------------------------ the form (97-106)
\* The user changes one widget; the script runs again with the button
\* unpressed, so only the value the widget returns changes.
SetText(t) ==
    /\ Quiet
    /\ text_input' = t
    /\ UNCHANGED <<pc, voice, rate, pitch, upload, tmp_dir, files, leftover,
                   request, ui, offered, synthCalls, composeCalls,
                   failedStage>>
    /\ UNCHANGED callVars

SetVoice(vo) ==
    /\ Quiet
    /\ voice' = vo
    /\ UNCHANGED <<pc, text_input, rate, pitch, upload, tmp_dir, files,
                   leftover, request, ui, offered, synthCalls, composeCalls,
                   failedStage>>
    /\ UNCHANGED callVars

SetRate(r) ==
    /\ Quiet
    /\ rate' = r
    /\ UNCHANGED <<pc, text_input, voice, pitch, upload, tmp_dir, files,
                   leftover, request, ui, offered, synthCalls, composeCalls,
                   failedStage>>
    /\ UNCHANGED callVars

SetPitch(p) ==
    /\ Quiet
    /\ pitch' = p
    /\ UNCHANGED <<pc, text_input, voice, rate, upload, tmp_dir, files,
                   leftover, request, ui, offered, synthCalls, composeCalls,
                   failedStage>>
    /\ UNCHANGED callVars

SetUpload(up) ==
    /\ Quiet
    /\ upload' = up
    /\ UNCHANGED <<pc, text_input, voice, rate, pitch, tmp_dir, files,
                   leftover, request, ui, offered, synthCalls, composeCalls,
                   failedStage>>
    /\ UNCHANGED callVars

\* --------------------------------------------- the script run (108-137)
\* lines 108-114: the button is pressed; the run uses the values the
\* widgets hold
Generate ==
    /\ Quiet
    /\ IF Strip(text_input) = << >>
       THEN /\ ui' = {"error"}
            /\ tmp_dir' = FALSE
            /\ pc' = "rejected"
       ELSE /\ ui' = {}
            /\ tmp_dir' = TRUE
            /\ pc' = "synth"
    /\ UNCHANGED formVars
    /\ UNCHANGED <<files, leftover, request, offered, synthCalls,
                   composeCalls, failedStage>>
    /\ UNCHANGED callVars

\* line 115: synthesize_tts returns, voice.mp3 written
SynthesisOk(d) ==
    /\ pc = "synth"
    /\ synthCalls' = synthCalls + 1
    /\ request' = SynthesizeTts(text_input, voice, rate, pitch)
    /\ files' = files \cup {AudioPath}
    /\ audioLen' = d
    /\ pc' = "upload"
    /\ UNCHANGED <<text_input, voice, rate, pitch, upload, tmp_dir, leftover,
                   ui, offered, composeCalls, failedStage>>
    /\ UNCHANGED <<cpc, video_path, image_path, out_path, handles,
                   audioOpens, duration, source, track, outFile, result>>

\* a slip: the exception of the synthesis is caught and the run goes on
SynthesisFailsSwallowed(partial) ==
    /\ pc = "synth"
    /\ synthCalls' = synthCalls + 1
    /\ request' = SynthesizeTts(text_input, voice, rate, pitch)
    /\ files' = IF partial THEN files \cup {AudioPath} ELSE files
    /\ failedStage' = "synthesis"
    /\ pc' = "upload"
    /\ UNCHANGED <<text_input, voice, rate, pitch, upload, tmp_dir, leftover,
                   ui, offered, composeCalls>>
    /\ UNCHANGED callVars

\* lines 52, 115: communicate.save raises and the exception ends the run;
\* save may have created voice.mp3 and written part of it before (partial)
SynthesisFails(partial) ==
    /\ pc = "synth"
    /\ synthCalls' = synthCalls + 1
    /\ request' = SynthesizeTts(text_input, voice, rate, pitch)
    /\ files' = IF partial THEN files \cup {AudioPath} ELSE files
    /\ failedStage' = "synthesis"
    /\ pc' = "failed"
    /\ UNCHANGED <<text_input, voice, rate, pitch, upload, tmp_dir, leftover,
                   ui, offered, composeCalls>>
    /\ UNCHANGED callVars

\* lines 117-129: save the upload, pick its path, call the composer
SaveUpload ==
    /\ pc = "upload"
    /\ IF upload.kind # "none"
       THEN /\ files' = files \cup {UploadPath(upload)}
            /\ IF IsVideoUpload(upload)
               THEN video_path' = UploadPath(upload) /\ image_path' = None
               ELSE video_path' = None /\ image_path' = UploadPath(upload)
       ELSE /\ files' = files
            /\ video_path' = None /\ image_path' = None
    /\ out_path' = OutPath
    /\ composeCalls' = composeCalls + 1
    /\ pc' = "compose"
    /\ EnterCall
    /\ UNCHANGED <<text_input, voice, rate, pitch, upload, tmp_dir, leftover,
                   request, ui, offered, synthCalls, failedStage, audioLen>>

\* lines 94-108: any later interaction reruns the script from the top with
\* the button unpressed: the widgets return the values they hold, the page
\* shows the form only, every local of the previous run is gone, and the
\* scratch directory and the files of that run stay on disk
Rerun ==
    /\ Ended
    /\ pc' = "idle"
    /\ UNCHANGED formVars
    /\ leftover' = (leftover \/ tmp_dir \/ files # {})
    /\ tmp_dir' = FALSE
    /\ files' = {} /\ request' = NoRequest /\ ui' = {} /\ offered' = {}
    /\ synthCalls' = 0 /\ composeCalls' = 0 /\ failedStage' = None
    /\ cpc' = "idle" /\ audioLen' = 0 /\ video_path' = None
    /\ image_path' = None /\ out_path' = None /\ handles' = {}
    /\ audioOpens' = 0
    /\ duration' = 0 /\ source' = NoClip /\ track' = NoClip
    /\ outFile' = NoFile /\ result' = NoResult

\* line 131: the composer returned; st.success
ShowSuccess ==
    /\ pc = "compose" /\ cpc = "returned"
    /\ ui' = ui \cup {"success"}
    /\ pc' = "video"
    /\ UNCHANGED <<text_input, voice, rate, pitch, upload, tmp_dir, files,
                   leftover, request, offered, synthCalls, composeCalls,
                   failedStage>>
    /\ UNCHANGED callVars

\* line 132: st.video(final_video)
ShowVideo ==
    /\ pc = "video"
    /\ ui' = ui \cup {"video"}
    /\ pc' = "mp4"
    /\ UNCHANGED <<text_input, voice, rate, pitch, upload, tmp_dir, files,
                   leftover, request, offered, synthCalls, composeCalls,
                   failedStage>>
    /\ UNCHANGED callVars

\* lines 134-135: open(final_video), st.download_button("Download MP4")
OfferMp4 ==
    /\ pc = "mp4"
    /\ offered' = offered \cup {"mp4"}
    /\ pc' = "mp3"
    /\ UNCHANGED <<text_input, voice, rate, pitch, upload, tmp_dir, files,
                   leftover, request, ui, synthCalls, composeCalls,
                   failedStage>>
    /\ UNCHANGED callVars

\* line 134: open(final_video, "rb") raises; the exception ends the run
\* with the success message and the video on the page
OpenOutputFails ==
    /\ pc = "mp4"
    /\ failedStage' = "presentation"
    /\ pc' = "failed"
    /\ UNCHANGED <<text_input, voice, rate, pitch, upload, tmp_dir, files,
                   leftover, request, ui, offered, synthCalls, composeCalls>>
    /\ UNCHANGED callVars

\* a slip: the MP3 download button is left out
OfferMp3Skipped ==
    /\ pc = "mp3"
    /\ pc' = "done"
    /\ UNCHANGED <<text_input, voice, rate, pitch, upload, tmp_dir, files,
                   leftover, request, ui, offered, synthCalls, composeCalls,
                   failedStage>>
    /\ UNCHANGED callVars

\* lines 136-137: open(audio_file), st.download_button("Download MP3");
\* the script ends
OfferMp3 ==
    /\ pc = "mp3"
    /\ offered' = offered \cup {"mp3"}
    /\ pc' = "done"
    /\ UNCHANGED <<text_input, voice, rate, pitch, upload, tmp_dir, files,
                   leftover, request, ui, synthCalls, composeCalls,
                   failedStage>>
    /\ UNCHANGED callVars

\* line 136: open(audio_file, "rb") raises; the exception ends the run
\* with the MP4 download already on the page
OpenAudioFileFails ==
    /\ pc = "mp3"
    /\ failedStage' = "presentation"
    /\ pc' = "failed"
    /\ UNCHANGED <<text_input, voice, rate, pitch, upload, tmp_dir, files,
                   leftover, request, ui, offered, synthCalls, composeCalls>>
    /\ UNCHANGED callVars

\* line 129: the composer raised; the exception ends the run
ComposeFails ==
    /\ pc = "compose" /\ cpc = "raised"
    /\ failedStage' = "composition"
    /\ pc' = "failed"
    /\ UNCHANGED <<text_input, voice, rate, pitch, upload, tmp_dir, files,
                   leftover, request, ui, offered, synthCalls, composeCalls>>
    /\ UNCHANGED callVars


\* ------------------------------ create_video_with_voiceover (61-90)
\* a direct call of the function, from a process that has just loaded the
\* module (the widgets at their defaults, the button unpressed), with
\* arguments of the caller's choosing; nothing in the function looks at the
\* audio duration before using it, so an audio of duration 0 is among them
DirectCall(d, vp, ip) ==
    /\ Quiet
    /\ UNCHANGED scriptVars
    /\ audioLen' = d
    /\ video_path' = vp
    /\ image_path' = ip
    /\ out_path' = "out.mp4"
    /\ EnterCall

\* lines 62-63: audio_clip = AudioFileClip(audio_path)
OpenAudio ==
    /\ cpc = "open_audio"
    /\ handles' = handles \cup {"audio_clip"}
    /\ audioOpens' = audioOpens + 1
    /\ duration' = audioLen
    /\ cpc' = "open_visual"
    /\ UNCHANGED scriptVars
    /\ UNCHANGED <<audioLen, video_path, image_path, out_path, source, track,
                   outFile, result>>

\* line 62: AudioFileClip raises (unreadable audio)
OpenAudioFails ==
    /\ cpc = "open_audio"
    /\ audioOpens' = audioOpens + 1
    /\ cpc' = "raised"
    /\ UNCHANGED scriptVars
    /\ UNCHANGED <<audioLen, video_path, image_path, out_path, handles,
                   duration, source, track, outFile, result>>

\* lines 65-66: video = VideoFileClip(video_path)
OpenVideo(v, size) ==
    /\ cpc = "open_visual"
    /\ Truthy(video_path)
    /\ source' = Opened("video", video_path, v, size)
    /\ track' = Opened("video", video_path, v, size)
    /\ handles' = handles \cup {"video"}
    /\ cpc' = "build"
    /\ UNCHANGED scriptVars
    /\ UNCHANGED <<audioLen, video_path, image_path, out_path, audioOpens,
                   duration, outFile, result>>

\* lines 76-77: clip = ImageClip(image_path)
OpenImage(size) ==
    /\ cpc = "open_visual"
    /\ ~Truthy(video_path)
    /\ Truthy(image_path)
    /\ source' = Opened("image", image_path, 0, size)
    /\ track' = Opened("image", image_path, 0, size)
    /\ handles' = handles \cup {"clip"}
    /\ cpc' = "build"
    /\ UNCHANGED scriptVars
    /\ UNCHANGED <<audioLen, video_path, image_path, out_path, audioOpens,
                   duration, outFile, result>>

\* lines 78-82: a black 1280x720 image saved to a temporary .png made with
\* delete=False, which nothing removes, and opened as the clip
OpenPlaceholder ==
    /\ cpc = "open_visual"
    /\ ~Truthy(video_path)
    /\ ~Truthy(image_path)
    /\ files' = files \cup {PlaceholderPath}
    /\ source' = Opened("black", PlaceholderPath, 0,
                        <<PlaceholderWidth, PlaceholderHeight>>)
    /\ track' = Opened("black", PlaceholderPath, 0,
                       <<PlaceholderWidth, PlaceholderHeight>>)
    /\ handles' = handles \cup {"clip"}
    /\ cpc' = "build"
    /\ UNCHANGED runVars
    /\ UNCHANGED <<audioLen, video_path, image_path, out_path, audioOpens,
                   duration, outFile, result>>

\* lines 66 / 77: the visual source cannot be opened
OpenVisualFails ==
    /\ cpc = "open_visual"
    /\ Truthy(video_path) \/ Truthy(image_path)
    /\ cpc' = "raised"
    /\ UNCHANGED scriptVars
    /\ UNCHANGED <<audioLen, video_path, image_path, out_path, handles,
                   audioOpens, duration, source, track, outFile, result>>

\* lines 67-72: loop and trim the video, attach the audio
LoopTrim ==
    /\ cpc = "build"
    /\ track.kind = "video"
    /\ ~(track.duration < duration /\ track.duration = 0)
    /\ track' = SetAudio(VideoTrack(track, duration))
    /\ cpc' = "write"
    /\ UNCHANGED scriptVars
    /\ UNCHANGED <<audioLen, video_path, image_path, out_path, handles,
                   audioOpens, duration, source, outFile, result>>

\* line 68: duration // video.duration with a video of duration 0
LoopDivideByZero ==
    /\ cpc = "build"
    /\ track.kind = "video"
    /\ track.duration < duration /\ track.duration = 0
    /\ cpc' = "raised"
    /\ UNCHANGED scriptVars
    /\ UNCHANGED <<audioLen, video_path, image_path, out_path, handles,
                   audioOpens, duration, source, track, outFile, result>>

\* lines 84-85: hold the still, resize it, attach the audio
HoldResize ==
    /\ cpc = "build"
    /\ track.kind \in {"image", "black"}
    /\ track' = ImageTrack(track, duration)
    /\ cpc' = "write"
    /\ UNCHANGED scriptVars
    /\ UNCHANGED <<audioLen, video_path, image_path, out_path, handles,
                   audioOpens, duration, source, outFile, result>>

\* the fps argument of write_videofile: none on the video path (line 73),
\* 24 on the image path (line 86)
FpsArg(clip) == IF clip.kind = "video" THEN {} ELSE {ImageFps}

\* The frames write_videofile can encode.  A video's frames are read from
\* its file while the output is written; when the output path is the path
\* of that file (an upload named output.mp4, lines 119 and 127) the encoder
\* overwrites what the reader is still reading, and what is encoded is the
\* source's frames or not, as the platform has it.  A still is in memory
\* once opened.
FramesWritten(clip, out) ==
    IF clip.kind = "video" /\ clip.path = out
    THEN {"source", "damaged"}
    ELSE {"source"}

\* The handles released by the close() calls after the file is written
\* (lines 74 / 87, 89).  audio_clip is closed itself.  The other close() is
\* called on the derived clip (the trimmed or looped video, the resized
\* still), never on the object VideoFileClip / ImageClip returned: the
\* source's handle is released only if the media library's close() of the
\* derived clip reaches the source (reaches), which the code does not decide.
Closed(clip, reaches) ==
    {"audio_clip"}
    \cup (IF reaches
          THEN {IF clip.kind = "video" THEN "video" ELSE "clip"}
          ELSE {})

\* lines 73-74 / 86-87 and 89-90: encode, close, return
WriteVideoFile(reaches, frames) ==
    /\ cpc = "write"
    /\ outFile' = [kind |-> "complete", clip |-> track,
                   fps |-> FpsArg(track), frames |-> frames]
    /\ files' = files \cup {out_path}
    /\ handles' = handles \ Closed(track, reaches)
    /\ result' = [kind |-> "pair", path |-> out_path, duration |-> duration]
    /\ cpc' = "returned"
    /\ UNCHANGED runVars
    /\ UNCHANGED <<audioLen, video_path, image_path, out_path, audioOpens,
                   duration, source, track>>

\* lines 73 / 86: the encoder raises; what it wrote so far stays on disk
WriteVideoFileFails(partial) ==
    /\ cpc = "write"
    /\ outFile' = IF partial THEN [kind |-> "partial"] ELSE NoFile
    /\ files' = IF partial THEN files \cup {out_path} ELSE files
    /\ cpc' = "raised"
    /\ UNCHANGED runVars
    /\ UNCHANGED <<audioLen, video_path, image_path, out_path, handles,
                   audioOpens, duration, source, track, result>>

Compose ==
    \/ OpenAudio
    \/ OpenAudioFails
    \/ \E v \in 0..MaxVid, size \in Sizes : OpenVideo(v, size)
    \/ \E size \in Sizes : OpenImage(size)
    \/ OpenPlaceholder
    \/ OpenVisualFails
    \/ LoopTrim
    \/ LoopDivideByZero
    \/ HoldResize
    \/ /\ cpc = "write"
       /\ \E reaches \in BOOLEAN, frames \in FramesWritten(track, out_path) :
             WriteVideoFile(reaches, frames)
    \/ \E partial \in BOOLEAN : WriteVideoFileFails(partial)

Script ==
    \/ /\ Quiet
       /\ \E t \in Texts : SetText(t)
    \/ /\ Quiet
       /\ \E vo \in VOICE_PRESETS : SetVoice(vo)
    \/ /\ Quiet
       /\ \E r \in RateChoices : SetRate(r)
    \/ /\ Quiet
       /\ \E p \in PitchChoices : SetPitch(p)
    \/ /\ Quiet
       /\ \E up \in Uploads \cup {NoUpload} : SetUpload(up)
    \/ /\ Quiet
       /\ Generate
    \/ \E d \in 1..MaxDur : SynthesisOk(d)
    \/ \E partial \in BOOLEAN : SynthesisFails(partial)
    \/ SaveUpload
    \/ ShowSuccess
    \/ ShowVideo
    \/ OfferMp4
    \/ OpenOutputFails
    \/ OfferMp3
    \/ OpenAudioFileFails
    \/ ComposeFails
    \/ Rerun

\* the script as the user drives it
Next == Script \/ Compose

Spec == Init /\ [][Next]_vars

\* the script, and the composer called on its own with any arguments
NextAPI ==
    \/ Script
    \/ Compose
    \/ /\ Quiet
       /\ FormDefaults
       /\ ~leftover
       /\ \E d \in 0..MaxDur, vp \in {None, "clip.mp4"},
             ip \in {None, "still.png"} : DirectCall(d, vp, ip)

SpecAPI == Init /\ [][NextAPI]_vars

\* ================================================================ claims

\* ---- C1 --------------------------------------------------------------
\* C1: whenever create_video_with_voiceover returns for an audio of
\* duration d > 0, the track written to the output file lasts d and the
\* returned duration is d, whatever the visual source; for a video at least
\* d long what is written is one copy of the original's frames trimmed from
\* time 0 to d.
C1_OutputDurationEqualsAudio ==
    (cpc = "returned" /\ audioLen > 0)
    => /\ outFile.kind = "complete"
       /\ outFile.clip.duration = audioLen
       /\ outFile.clip.audio
       /\ result.duration = audioLen
       /\ (source.kind = "video" /\ source.duration >= audioLen)
          => /\ outFile.clip.copies = 1
             /\ outFile.clip.start = 0
             /\ outFile.clip.span = source.duration
             /\ outFile.frames = "source"

\* ---- C2 --------------------------------------------------------------
\* C2: for a video of duration v with 0 < v < d the track is made of
\* n = floor(d / v) + 1 copies trimmed to [0, d], and (n - 1) * v <= d < n * v:
\* the concatenation covers the audio and holds at most one copy more than
\* the copies d covers in full.
C2_LoopCountCoversAudio ==
    (track.kind = "video" /\ track.audio
       /\ 0 < source.duration /\ source.duration < duration)
    => LET n == track.copies
           v == source.duration
           d == duration
       IN  /\ n * v > d
           /\ (n - 1) * v <= d
           /\ track.span = n * v
           /\ track.start = 0
           /\ track.duration = d
           /\ track.ops = <<"concatenate", "subclip", "set_audio">>

\* a video that does not divide the audio has been looped: v = 2, d = 3
C2_Witness ==
    /\ track.kind = "video" /\ track.audio
    /\ source.duration = 2 /\ duration = 3 /\ track.copies = 2

\* ---- C3 --------------------------------------------------------------
\* "<n>%" as it must read for the slider values of the model
PercentText(n) ==
    CASE n = -40 -> "-40%"
      [] n = 5   -> "5%"
      [] n = 40  -> "40%"
      [] OTHER   -> "0%"

HasAttr(req, name, value) ==
    \E i \in 1..Len(req.prosody) :
        req.prosody[i] = [name |-> name, value |-> value]

Names(req) == {req.prosody[i].name : i \in 1..Len(req.prosody)}

\* C3 as stated: the request is plain text exactly when rate and pitch are
\* both 0, and every other request is an envelope scoped to the chosen voice
\* carrying both rate="<rate>%" and pitch="<pitch>%".
C3_BothAttributesAlways ==
    (request.kind # "none")
    => /\ (request.kind = "text") <=> (rate = 0 /\ pitch = 0)
       /\ request.voice = voice
       /\ request.kind = "ssml"
          => /\ request.voiceName = voice
             /\ HasAttr(request, "rate", PercentText(rate))
             /\ HasAttr(request, "pitch", PercentText(pitch))

\* C3 amended: the request is plain text exactly when rate and pitch are both
\* 0; every other request is an envelope scoped to the chosen voice that
\* carries rate="<rate>%" exactly when rate is not 0 and pitch="<pitch>%"
\* exactly when pitch is not 0, and no other attribute.
C3_NonZeroAttributesOnly ==
    (request.kind # "none")
    => /\ (request.kind = "text") <=> (rate = 0 /\ pitch = 0)
       /\ request.voice = voice
       /\ request.body = text_input
       /\ request.kind = "ssml"
          => /\ request.voiceName = voice
             /\ Names(request) = {"rate" : x \in {rate} \ {0}}
                                 \cup {"pitch" : x \in {pitch} \ {0}}
             /\ Len(request.prosody) = Cardinality(Names(request))
             /\ rate # 0 => HasAttr(request, "rate", PercentText(rate))
             /\ pitch # 0 => HasAttr(request, "pitch", PercentText(pitch))

\* an envelope was issued for a negative rate and a pitch of 0
C3_Witness ==
    /\ request.kind = "ssml" /\ rate = -40 /\ pitch = 0

\* ---- C4 --------------------------------------------------------------
WhitespaceOnly(t) == \A i \in 1..Len(t) : t[i] \in Whitespace

\* C4: a press of Generate with an empty or whitespace-only text is
\* rejected with an error on the page, and in that run there is no
\* synthesis call, no composition call, no scratch directory and no file.
C4_BlankTextRejected ==
    (pc # "idle" /\ WhitespaceOnly(text_input))
    => /\ pc = "rejected"
       /\ "error" \in ui
       /\ synthCalls = 0 /\ request.kind = "none"
       /\ composeCalls = 0 /\ cpc = "idle" /\ audioOpens = 0
       /\ ~tmp_dir /\ files = {}
       /\ offered = {}

\* a text of blanks only has been rejected
C4_Witness ==
    /\ pc = "rejected" /\ Len(text_input) > 0 /\ WhitespaceOnly(text_input)

\* ---- C5 --------------------------------------------------------------
\* C5: when a call of create_video_with_voiceover has ended, by return or
\* by an exception, every media handle it opened has been released.
C5_HandlesReleasedAtEnd ==
    cpc \in {"returned", "raised"} => handles = {}

\* ---- C6 --------------------------------------------------------------
\* C6: a failure of synthesis or composition ends the run: after a
\* synthesis failure the composer is never called, after either failure no
\* success, video or download is put on the page (whatever the encoder left
\* on disk), and from the failed run the only way on is a new interaction of
\* the user, which starts a run with no stage done; no stage runs again by
\* itself.
C6_FailureStep ==
    /\ failedStage' \in {"synthesis", "composition"}
       => /\ pc' = "failed"
          /\ offered' = {}
          /\ ui' \cap {"success", "video"} = {}
    /\ failedStage' = "synthesis"
       => /\ composeCalls' = 0 /\ cpc' = "idle" /\ audioOpens' = 0
          /\ synthCalls' = 1
    /\ failedStage' = "composition"
       => /\ cpc' = "raised" /\ result'.kind = "none"
          /\ composeCalls' = 1
    /\ pc = "failed"
       => /\ pc' \in {"failed", "idle"}
          /\ pc' = "failed" => UNCHANGED vars
          /\ pc' = "idle" => synthCalls' = 0 /\ composeCalls' = 0
    /\ (pc = "compose" /\ cpc = "raised") => pc' \in {"compose", "failed"}
    /\ (pc = "synth" /\ pc' \notin {"synth", "upload"}) => pc' = "failed"

C6_FailureIsTerminal == [][C6_FailureStep]_vars

\* the encoder failed leaving a partial file, and the run has ended
C6_Witness ==
    /\ pc = "failed" /\ failedStage = "composition"
    /\ outFile.kind = "partial"

\* ---- C7 --------------------------------------------------------------
Precedes(ops, a, b) ==
    \E i \in 1..Len(ops) : \E j \in 1..Len(ops) :
        ops[i] = a /\ ops[j] = b /\ i < j

\* C7 as stated: whatever the visual source, the track written to the
\* output file was resized to height 720, aspect ratio kept, before the audio
\* was attached.
C7_AlwaysResized ==
    outFile.kind = "complete"
    => /\ outFile.clip.h = TargetHeight
       /\ outFile.clip.w * outFile.clip.srcH
            = outFile.clip.srcW * TargetHeight
       /\ Precedes(outFile.clip.ops, "resize", "set_audio")

\* C7 amended: for a supplied image and for the generated placeholder the
\* track written to the output file was resized to height 720, aspect ratio
\* kept, before the audio was attached; for a supplied video the track is
\* never resized and keeps the frame size of the source.
C7_StillsResizedVideoKeepsSize ==
    outFile.kind = "complete"
    => /\ outFile.clip.kind \in {"image", "black"}
          => /\ outFile.clip.h = TargetHeight
             /\ outFile.clip.w * outFile.clip.srcH
                  = outFile.clip.srcW * TargetHeight
             /\ Precedes(outFile.clip.ops, "resize", "set_audio")
       /\ outFile.clip.kind = "video"
          => /\ outFile.clip.h = outFile.clip.srcH
             /\ outFile.clip.w = outFile.clip.srcW
             /\ \A i \in 1..Len(outFile.clip.ops) :
                    outFile.clip.ops[i] # "resize"
       /\ outFile.clip.audio

\* an image that is not 720 high has been composed and written
C7_Witness ==
    /\ outFile.kind = "complete" /\ outFile.clip.kind = "image"
    /\ outFile.clip.srcH # TargetHeight

\* ---- C9 --------------------------------------------------------------
\* each stage at most once and in order: the composer is called only after
\* synthesis wrote the audio file, and it opens that audio once
StagesInOrderOnce ==
    /\ synthCalls <= 1 /\ composeCalls <= 1 /\ audioOpens <= 1
    /\ composeCalls = 1
       => /\ synthCalls = 1
          /\ AudioPath \in files
          /\ request.kind # "none"
    /\ cpc # "idle" => composeCalls = 1
    /\ pc \in {"idle", "rejected", "synth", "upload"}
       => composeCalls = 0 /\ cpc = "idle"

\* C9 as stated: in one run each stage happens at most once and in order,
\* and the downloads appear only after the composer has returned with a
\* complete file, always the MP4 and the MP3 together.
C9_DownloadsTogether ==
    /\ StagesInOrderOnce
    /\ offered # {}
       => /\ offered = {"mp4", "mp3"}
          /\ cpc = "returned"
          /\ outFile.kind = "complete"
          /\ audioOpens = 1

\* C9 amended: in one run each stage happens at most once and in order; a
\* download appears only after the composer has returned with a complete
\* file and the success message and the video are on the page; the MP4 is
\* offered first and the MP3 never without the MP4; a run that reaches its
\* end offers both.
C9_Mp4ThenMp3 ==
    /\ StagesInOrderOnce
    /\ offered \subseteq {"mp4", "mp3"}
    /\ offered # {}
       => /\ "mp4" \in offered
          /\ {"success", "video"} \subseteq ui
          /\ pc \in {"mp3", "done", "failed"}
          /\ cpc = "returned"
          /\ outFile.kind = "complete"
          /\ audioOpens = 1
    /\ pc = "failed" => "mp3" \notin offered
    /\ pc = "done" => offered = {"mp4", "mp3"}

\* a run with an upload has gone through all its stages and offers both
\* downloads
C9_Witness ==
    /\ pc = "done" /\ offered = {"mp4", "mp3"} /\ upload.kind = "file"

\* ---- C10 -------------------------------------------------------------
\* the upload names of the model that end in .mp4, .mov or .webm in any
\* letter case
NamedAsVideo(suffix) ==
    suffix \in { <<".", "m", "p", "4">>, <<".", "M", "O", "V">>,
                 <<".", "w", "e", "b", "m">> }

\* C10: one path per request, first match wins: an upload named .mp4,
\* .mov or .webm (any letter case) is composed as a video and any other
\* upload as an image, whatever its bytes are; without an upload the black
\* 1280x720 placeholder is used; and a call given both a video path and an
\* image path uses the video and ignores the image.
C10_OnePathFirstMatch ==
    /\ composeCalls = 1
       => /\ (upload.kind = "file" /\ NamedAsVideo(upload.suffix))
             => video_path = UploadPath(upload) /\ image_path = None
          /\ (upload.kind = "file" /\ ~NamedAsVideo(upload.suffix))
             => video_path = None /\ image_path = UploadPath(upload)
          /\ upload.kind = "none"
             => video_path = None /\ image_path = None
    /\ source.kind # "none"
       => /\ video_path # None
             => source.kind = "video" /\ source.path = video_path
          /\ (video_path = None /\ image_path # None)
             => source.kind = "image" /\ source.path = image_path
          /\ (video_path = None /\ image_path = None)
             => /\ source.kind = "black"
                /\ source.w = PlaceholderWidth
                /\ source.h = PlaceholderHeight

\* an upload named .MOV that holds an image went down the video path
C10_Witness ==
    /\ upload.kind = "file"
    /\ upload.suffix = <<".", "M", "O", "V">>
    /\ upload.content = "image"
    /\ source.kind = "video"

====
